---- MODULE Spec2Model ----
(***************************************************************************)
(* VideoPlayer of src/gui/components/video_manager_panel.py: the embedded  *)
(* OpenCV frame player.  The main (Tk) thread calls load / play / pause /  *)
(* resume / stop / seek and drains the canvas.after queue; every play()    *)
(* starts a daemon thread that runs _play_loop.  Each Python statement     *)
(* that touches shared state is one step, so the two kinds of thread       *)
(* interleave as the interpreter lets them.                                *)
(*                                                                         *)
(* cv2.VideoCapture is not thread-safe and its calls release the GIL.  A   *)
(* read() that overlaps another call on the same handle is a data race:    *)
(* its result is a nondeterministic choice (success or failure, contents   *)
(* unspecified, position anywhere in the stream).  An abort of the whole   *)
(* process is a further outcome; it ends every behaviour and is left out.  *)
(***************************************************************************)
EXTENDS Integers, Sequences, FiniteSets, TLC

\* ------------------------------------------------------------------ bounds
MaxWorkers == 2
MaxQueue == 1
MaxCalls == 4
PosDen == 2

\* ------------------------------------------------------- the environment
\* Files the user may select.  cv2.VideoCapture opens the first three; it
\* yields an unopened handle for "missing.mp4" and raises for "raises".
\* "c.mp4" is a stream whose container states neither its length nor a
\* valid rate.
Videos == {"a.mp4", "b.mp4", "c.mp4"}
Paths == Videos \cup {"missing.mp4", "raises"}

\* Number of frames cap.read() yields before it fails.
ActualFrames(p) == IF p = "b.mp4" THEN 2 ELSE 1
\* cap.get(CAP_PROP_FRAME_COUNT); 0 when the length is unknown
ReportedCount(p) == IF p = "c.mp4" THEN 0 ELSE ActualFrames(p)
\* cap.get(CAP_PROP_FPS); 0 when the container states no rate
ReportedFps(p) == IF p = "a.mp4" THEN 25 ELSE IF p = "b.mp4" THEN 0 ELSE -1

Workers == 1..MaxWorkers
Positions == 0..PosDen      \* seek position k / PosDen, k in 0..PosDen

NoFrame == [src |-> "", idx |-> 0]
\* contents of a frame decoded by a racing read: unspecified
Garbage == [src |-> "?", idx |-> 0]

Min(a, b) == IF a < b THEN a ELSE b

VARIABLES
    cap,            \* self.cap: "none" | "closed" (isOpened() false) | "open"
    capSrc,         \* the file self.cap was constructed on ("" if none)
    capPos,         \* CAP_PROP_POS_FRAMES of self.cap
    is_playing, is_paused,
    stop_flag,      \* self._stop_flag.is_set()
    current_frame, total_frames, fps,
    on_complete,    \* whether a completion callback was given to __init__
    photo,          \* self._photo, the image on the canvas
    afterQueue,     \* callbacks posted with canvas.after(0, ...)
    mpc,            \* main thread: the statement it is at
    mpath,          \* main thread: argument of the load() in progress
    seekPos,        \* main thread: argument k of the seek(k / PosDen) in progress
    last,           \* main thread: the last public call made
    newest,         \* the thread the most recent play() started; 0 if none,
                    \* or once stop() has been called since
    calls,          \* main thread: number of public calls made so far
    wpc,            \* worker thread -> the statement it is at
    wframe,         \* worker thread -> the frame it decoded
    raced,          \* workers whose read() in flight overlapped another call
    stale           \* workers whose read() in flight is on a handle that
                    \* self.cap no longer names

handle == <<cap, capSrc, capPos>>
flags == <<is_playing, is_paused, stop_flag>>
session == <<current_frame, total_frames, fps>>
ui == <<photo, afterQueue>>
mainv == <<mpc, mpath, seekPos, last, newest>>
workerv == <<wpc, wframe, raced, stale>>
vars == <<handle, flags, session, on_complete, ui, mainv, calls, workerv>>

\* VideoPlayer.__init__
Init ==
    /\ cap = "none" /\ capSrc = "" /\ capPos = 0
    /\ is_playing = FALSE /\ is_paused = FALSE /\ stop_flag = FALSE
    /\ current_frame = 0 /\ total_frames = 0 /\ fps = 30
    /\ on_complete \in BOOLEAN
    /\ photo = NoFrame
    /\ afterQueue = <<>>
    /\ mpc = "idle" /\ mpath = "" /\ seekPos = 0 /\ last = "none" /\ newest = 0
    /\ calls = 0
    /\ wpc = [w \in Workers |-> "unborn"]
    /\ wframe = [w \in Workers |-> NoFrame]
    /\ raced = {} /\ stale = {}

\* ------------------------------------------------------------- helpers
\* Workers inside cap.read() on the handle self.cap names.
InFlight == {w \in Workers : wpc[w] = "reading" /\ w \notin stale}

\* The main thread calls into the handle: every read() in flight on it races
\* (an unopened or released handle has no decoder state to race on).
MainTouches == raced' = IF cap = "open" THEN raced \cup InFlight ELSE raced

\* A decode loop is active from Thread.start() until _play_loop returns or
\* dies of an exception.
LoopActive(w) == wpc[w] \notin {"unborn", "done", "dead"}
ActiveLoops == {w \in Workers : LoopActive(w)}

\* VideoPlayer.get_progress, as the pair <<numerator, denominator>>
get_progress ==
    IF total_frames > 0 THEN <<current_frame, total_frames>> ELSE <<0, 1>>
ProgressIsZero == get_progress[1] = 0

\* ------------------------------------------------- cv2.VideoCapture calls
\* cap.read() with no call overlapping it.
CleanRead ==
    IF cap = "open" /\ capPos < ActualFrames(capSrc)
    THEN [ret |-> TRUE, frame |-> [src |-> capSrc, idx |-> capPos], pos |-> capPos + 1]
    ELSE [ret |-> FALSE, frame |-> NoFrame, pos |-> capPos]

\* cap.read() overlapping another call on the same handle.
RacyReads ==
    LET range == IF cap = "open" THEN 0..ActualFrames(capSrc) ELSE {capPos}
    IN  {CleanRead}
        \cup {[ret |-> FALSE, frame |-> NoFrame, pos |-> q] : q \in range}
        \cup {[ret |-> TRUE, frame |-> Garbage, pos |-> q] : q \in range}

\* cap.set(CAP_PROP_POS_FRAMES, n)
PosAfterSet(n) == IF cap = "open" THEN Min(n, ActualFrames(capSrc)) ELSE capPos

\* int(cap.get(CAP_PROP_POS_FRAMES))
PosReported == IF cap = "open" THEN capPos ELSE 0

\* ----------------------------------------------------------- main thread
\* Where stop() returns to: load() calls it first.
AfterStop == IF last = "load" THEN "load_open" ELSE "idle"

\* stop(): self._stop_flag.set().  `last` tells a stop() that directly
\* follows another stop() from a first one.
CallStop ==
    /\ mpc = "idle"
    /\ stop_flag' = TRUE
    /\ mpc' = "stop_playing"
    /\ last' = IF last \in {"stop", "stop_again"} THEN "stop_again" ELSE "stop"
    /\ newest' = 0
    /\ UNCHANGED <<handle, is_playing, is_paused, session, on_complete, ui,
                   mpath, seekPos, workerv>>

\* load(video_path): self.stop(), whose first statement sets the flag
CallLoad(p) ==
    /\ mpc = "idle"
    /\ stop_flag' = TRUE
    /\ mpc' = "stop_playing" /\ last' = "load" /\ mpath' = p
    /\ newest' = 0
    /\ UNCHANGED <<handle, is_playing, is_paused, session, on_complete, ui,
                   seekPos, workerv>>

\* stop(): self.is_playing = False
StopPlaying ==
    /\ mpc = "stop_playing"
    /\ is_playing' = FALSE
    /\ mpc' = "stop_paused"
    /\ UNCHANGED <<handle, is_paused, stop_flag, session, on_complete, ui,
                   mpath, seekPos, last, newest, workerv>>

\* stop(): self.is_paused = False
StopPaused ==
    /\ mpc = "stop_paused"
    /\ is_paused' = FALSE
    /\ mpc' = "stop_release"
    /\ UNCHANGED <<handle, is_playing, stop_flag, session, on_complete, ui,
                   mpath, seekPos, last, newest, workerv>>

\* stop(): if self.cap: self.cap.release()
StopRelease ==
    /\ mpc = "stop_release"
    /\ IF cap = "none"
       THEN /\ mpc' = AfterStop
            /\ UNCHANGED <<handle, raced>>
       ELSE /\ cap' = "closed" /\ capPos' = 0
            /\ MainTouches
            /\ mpc' = "stop_none"
            /\ UNCHANGED capSrc
    /\ UNCHANGED <<flags, session, on_complete, ui, mpath, seekPos, last, newest,
                   wpc, wframe, stale>>

\* stop() that forgets `self.cap = None` after the release
StopNoneKeepsHandle ==
    /\ mpc = "stop_none"
    /\ mpc' = AfterStop
    /\ UNCHANGED <<handle, flags, session, on_complete, ui, mpath, seekPos,
                   last, newest, workerv>>

\* stop(): self.cap = None
StopNone ==
    /\ mpc = "stop_none"
    /\ cap' = "none" /\ capSrc' = ""
    /\ stale' = stale \cup InFlight
    /\ mpc' = AfterStop
    /\ UNCHANGED <<capPos, flags, session, on_complete, ui, mpath, seekPos,
                   last, newest, wpc, wframe, raced>>

\* load(): self.cap = cv2.VideoCapture(video_path), or the except branch
LoadOpen ==
    /\ mpc = "load_open"
    /\ IF mpath = "raises"
       THEN /\ mpc' = "idle" /\ last' = "load_fail" /\ mpath' = ""
            /\ UNCHANGED newest
            /\ UNCHANGED handle
       ELSE /\ cap' = IF mpath \in Videos THEN "open" ELSE "closed"
            /\ capSrc' = mpath /\ capPos' = 0
            /\ mpc' = "load_isopened"
            /\ UNCHANGED <<last, newest, mpath>>
    /\ UNCHANGED <<flags, session, on_complete, ui, seekPos, workerv>>

\* load(): if not self.cap.isOpened(): return False
LoadIsOpened ==
    /\ mpc = "load_isopened"
    /\ MainTouches
    /\ IF cap = "open"
       THEN mpc' = "load_total" /\ UNCHANGED <<last, newest, mpath>>
       ELSE mpc' = "idle" /\ last' = "load_fail" /\ mpath' = "" /\ UNCHANGED newest
    /\ UNCHANGED <<handle, flags, session, on_complete, ui, seekPos,
                   wpc, wframe, stale>>

\* load(): self.total_frames = int(self.cap.get(cv2.CAP_PROP_FRAME_COUNT))
LoadTotal ==
    /\ mpc = "load_total"
    /\ MainTouches
    /\ total_frames' = ReportedCount(capSrc)
    /\ mpc' = "load_fps"
    /\ UNCHANGED <<handle, flags, current_frame, fps, on_complete, ui,
                   mpath, seekPos, last, newest, wpc, wframe, stale>>

\* load(): self.fps = self.cap.get(cv2.CAP_PROP_FPS) or 30
FpsOrDefault(rate) == IF rate = 0 THEN 30 ELSE rate

LoadFps ==
    /\ mpc = "load_fps"
    /\ MainTouches
    /\ fps' = FpsOrDefault(ReportedFps(capSrc))
    /\ mpc' = "load_cur"
    /\ UNCHANGED <<handle, flags, current_frame, total_frames, on_complete, ui,
                   mpath, seekPos, last, newest, wpc, wframe, stale>>

\* load(): self.current_frame = 0
LoadCur ==
    /\ mpc = "load_cur"
    /\ current_frame' = 0
    /\ mpc' = "load_show_set"
    /\ UNCHANGED <<handle, flags, total_frames, fps, on_complete, ui,
                   mpath, seekPos, last, newest, workerv>>

\* _show_frame(0): self.cap.set(cv2.CAP_PROP_POS_FRAMES, frame_num)
LoadShowSet ==
    /\ mpc = "load_show_set"
    /\ MainTouches
    /\ capPos' = PosAfterSet(0)
    /\ mpc' = "load_show_read"
    /\ UNCHANGED <<cap, capSrc, flags, session, on_complete, ui,
                   mpath, seekPos, last, newest, wpc, wframe, stale>>

\* _show_frame: ret, frame = self.cap.read(); on success the frame replaces
\* self._photo and the canvas image.  r is the outcome of the read.
ShowRead(r) ==
    /\ MainTouches
    /\ capPos' = r.pos
    /\ photo' = IF r.ret THEN r.frame ELSE photo
    /\ UNCHANGED <<cap, capSrc, afterQueue>>

ReadOutcomes == IF cap = "open" /\ InFlight # {} THEN RacyReads ELSE {CleanRead}

\* load(): the read of _show_frame(0), then return True
LoadShowRead ==
    /\ mpc = "load_show_read"
    /\ \E r \in ReadOutcomes : ShowRead(r)
    /\ mpc' = "idle" /\ last' = "load_ok" /\ mpath' = "" /\ UNCHANGED newest
    /\ UNCHANGED <<flags, session, on_complete, seekPos, wpc, wframe, stale>>

\* seek(position): frame_num = int(position * self.total_frames), for the
\* position k / PosDen
SeekFrame(k, total) == (k * total) \div PosDen

\* seek(): the guard
CallSeek(k) ==
    /\ mpc = "idle"
    /\ last' = "seek" /\ UNCHANGED newest
    /\ IF cap # "none" /\ total_frames > 0
       THEN mpc' = "seek_set" /\ seekPos' = k
       ELSE UNCHANGED <<mpc, seekPos>>
    /\ UNCHANGED <<handle, flags, session, on_complete, ui, mpath, workerv>>

\* seek(): self.cap.set(cv2.CAP_PROP_POS_FRAMES, frame_num)
SeekSet ==
    /\ mpc = "seek_set"
    /\ MainTouches
    /\ capPos' = PosAfterSet(SeekFrame(seekPos, total_frames))
    /\ mpc' = "seek_cur"
    /\ UNCHANGED <<cap, capSrc, flags, session, on_complete, ui,
                   mpath, seekPos, last, newest, wpc, wframe, stale>>

\* seek(): self.current_frame = frame_num
SeekCur ==
    /\ mpc = "seek_cur"
    /\ current_frame' = SeekFrame(seekPos, total_frames)
    /\ mpc' = "seek_show"
    /\ UNCHANGED <<handle, flags, total_frames, fps, on_complete, ui,
                   mpath, seekPos, last, newest, workerv>>

\* seek(): if not self.is_playing: self._show_frame()
SeekShow ==
    /\ mpc = "seek_show"
    /\ IF is_playing
       THEN UNCHANGED <<handle, ui, raced>>
       ELSE \E r \in ReadOutcomes : ShowRead(r)
    /\ mpc' = "idle" /\ seekPos' = 0
    /\ UNCHANGED <<flags, session, on_complete, mpath, last, newest, wpc, wframe, stale>>

\* Thread slots play() can start a thread in (at most MaxWorkers threads live).
FreeSlots == {w \in Workers : ~LoopActive(w)}

\* play(): the guard, then self.is_playing = True
CallPlay ==
    /\ mpc = "idle"
    /\ last' = "play" /\ UNCHANGED newest
    /\ IF cap = "none" \/ is_playing
       THEN UNCHANGED <<mpc, is_playing>>
       ELSE /\ FreeSlots # {}
            /\ is_playing' = TRUE
            /\ mpc' = "play_paused"
    /\ UNCHANGED <<handle, is_paused, stop_flag, session, on_complete, ui,
                   mpath, seekPos, workerv>>

\* play(): self.is_paused = False
PlayPaused ==
    /\ mpc = "play_paused"
    /\ is_paused' = FALSE
    /\ mpc' = "play_clear"
    /\ UNCHANGED <<handle, is_playing, stop_flag, session, on_complete, ui,
                   mpath, seekPos, last, newest, workerv>>

\* play(): self._stop_flag.clear()
PlayClear ==
    /\ mpc = "play_clear"
    /\ stop_flag' = FALSE
    /\ mpc' = "play_start"
    /\ UNCHANGED <<handle, is_playing, is_paused, session, on_complete, ui,
                   mpath, seekPos, last, newest, workerv>>

\* play(): threading.Thread(target=self._play_loop, daemon=True).start()
StartThread(w) == wpc' = [wpc EXCEPT ![w] = "start"]

PlayStart ==
    /\ mpc = "play_start"
    /\ LET w == CHOOSE x \in FreeSlots : \A y \in FreeSlots : x <= y
       IN  StartThread(w) /\ newest' = w
    /\ mpc' = "idle"
    /\ UNCHANGED <<handle, flags, session, on_complete, ui,
                   mpath, seekPos, last, wframe, raced, stale>>

\* pause()
CallPause ==
    /\ mpc = "idle"
    /\ is_paused' = TRUE
    /\ last' = "pause" /\ UNCHANGED newest
    /\ UNCHANGED <<handle, is_playing, stop_flag, session, on_complete, ui,
                   mpc, mpath, seekPos, workerv>>

\* resume()
CallResume ==
    /\ mpc = "idle"
    /\ is_paused' = FALSE
    /\ last' = "resume" /\ UNCHANGED newest
    /\ UNCHANGED <<handle, is_playing, stop_flag, session, on_complete, ui,
                   mpc, mpath, seekPos, workerv>>

\* The Tk main loop runs the oldest callback posted with canvas.after(0, ..):
\* _display_frame(f) replaces self._photo and the canvas image; the
\* completion callback belongs to the caller and leaves the player alone.
Drain ==
    /\ mpc = "idle"
    /\ afterQueue # <<>>
    /\ photo' = IF Head(afterQueue).kind = "frame"
                THEN Head(afterQueue).frame ELSE photo
    /\ afterQueue' = Tail(afterQueue)
    /\ UNCHANGED <<handle, flags, session, on_complete, mainv, workerv>>

\* -------------------------------------------------- worker: _play_loop
Goto(w, l) == wpc' = [wpc EXCEPT ![w] = l]

\* A worker calls into the handle: every other read() in flight on it races.
WorkerTouches(w) ==
    raced' = IF cap = "open" THEN raced \cup (InFlight \ {w}) ELSE raced

\* canvas.after(0, callback) from the worker thread
Post(entry) ==
    /\ Len(afterQueue) < MaxQueue
    /\ afterQueue' = Append(afterQueue, entry)

\* frame_delay = 1.0 / self.fps (ZeroDivisionError ends the thread)
WStart(w) ==
    /\ wpc[w] = "start"
    /\ Goto(w, IF fps = 0 THEN "dead" ELSE "loop")
    /\ UNCHANGED <<handle, flags, session, on_complete, ui, mainv,
                   wframe, raced, stale>>

\* while not self._stop_flag.is_set():
LoopTarget == IF stop_flag THEN "exit" ELSE "chk_pause"

WLoop(w) ==
    /\ wpc[w] = "loop"
    /\ Goto(w, LoopTarget)
    /\ UNCHANGED <<handle, flags, session, on_complete, ui, mainv,
                   wframe, raced, stale>>

\* if self.is_paused: time.sleep(0.1); continue
PauseTarget == IF is_paused THEN "loop" ELSE "chk_cap"

WChkPause(w) ==
    /\ wpc[w] = "chk_pause"
    /\ Goto(w, PauseTarget)
    /\ UNCHANGED <<handle, flags, session, on_complete, ui, mainv,
                   wframe, raced, stale>>

\* if not self.cap: break
WChkCap(w) ==
    /\ wpc[w] = "chk_cap"
    /\ Goto(w, IF cap = "none" THEN "exit" ELSE "read")
    /\ UNCHANGED <<handle, flags, session, on_complete, ui, mainv,
                   wframe, raced, stale>>

\* self.cap.read() is entered; with self.cap None the attribute lookup
\* raises and the thread dies
WReadCall(w) ==
    /\ wpc[w] = "read"
    /\ IF cap = "none"
       THEN Goto(w, "dead") /\ UNCHANGED <<raced, stale>>
       ELSE /\ Goto(w, "reading")
            /\ raced' = IF cap = "open" /\ InFlight # {}
                        THEN raced \cup InFlight \cup {w}
                        ELSE raced \ {w}
            /\ stale' = stale \ {w}
    /\ UNCHANGED <<handle, flags, session, on_complete, ui, mainv, wframe>>

\* What a read() in flight returns.  A handle self.cap no longer names has
\* been released: its read fails unless the release overlapped it.
WorkerReads(w) ==
    IF w \in stale
    THEN IF w \in raced
         THEN {[ret |-> FALSE, frame |-> NoFrame, pos |-> capPos],
               [ret |-> TRUE, frame |-> Garbage, pos |-> capPos]}
         ELSE {[ret |-> FALSE, frame |-> NoFrame, pos |-> capPos]}
    ELSE IF w \in raced THEN RacyReads ELSE {CleanRead}

\* ret, frame = self.cap.read() returns; if not ret: ...
ReadTarget(r) == IF r.ret THEN "upd" ELSE "eos_set"

WReadRet(w) ==
    /\ wpc[w] = "reading"
    /\ \E r \in WorkerReads(w) :
        /\ capPos' = r.pos
        /\ wframe' = [wframe EXCEPT ![w] = r.frame]
        /\ Goto(w, ReadTarget(r))
    /\ raced' = raced \ {w}
    /\ stale' = stale \ {w}
    /\ UNCHANGED <<cap, capSrc, flags, session, on_complete, ui, mainv>>

\* end of stream: self.cap.set(cv2.CAP_PROP_POS_FRAMES, 0)
WEosSet(w) ==
    /\ wpc[w] = "eos_set"
    /\ IF cap = "none"
       THEN Goto(w, "dead") /\ UNCHANGED <<capPos, raced>>
       ELSE /\ capPos' = PosAfterSet(0)
            /\ WorkerTouches(w)
            /\ Goto(w, "eos_reset")
    /\ UNCHANGED <<cap, capSrc, flags, session, on_complete, ui, mainv,
                   wframe, stale>>

\* end of stream: self.current_frame = 0
EosFrame == 0

WEosReset(w) ==
    /\ wpc[w] = "eos_reset"
    /\ current_frame' = EosFrame
    /\ Goto(w, "eos_notify")
    /\ UNCHANGED <<handle, flags, total_frames, fps, on_complete, ui, mainv,
                   wframe, raced, stale>>

\* end of stream: if self.on_complete: self.canvas.after(0, self.on_complete)
\* and continue
EosTargetTerminal == "exit"
EosTarget == "loop"

WEosNotify(w) ==
    /\ wpc[w] = "eos_notify"
    /\ IF on_complete
       THEN Post([kind |-> "complete", frame |-> NoFrame])
       ELSE UNCHANGED afterQueue
    /\ Goto(w, EosTarget)
    /\ UNCHANGED <<handle, flags, session, on_complete, photo, mainv,
                   wframe, raced, stale>>

\* self.current_frame = int(self.cap.get(cv2.CAP_PROP_POS_FRAMES))
WUpd(w) ==
    /\ wpc[w] = "upd"
    /\ IF cap = "none"
       THEN /\ Goto(w, "dead")
            /\ wframe' = [wframe EXCEPT ![w] = NoFrame]
            /\ UNCHANGED <<current_frame, raced>>
       ELSE /\ current_frame' = PosReported
            /\ WorkerTouches(w)
            /\ Goto(w, "post")
            /\ UNCHANGED wframe
    /\ UNCHANGED <<handle, flags, total_frames, fps, on_complete, ui, mainv, stale>>

\* A loop that calls self._display_frame(frame) itself instead of posting it
WPostRenders(w) ==
    /\ wpc[w] = "post"
    /\ photo' = wframe[w]
    /\ wframe' = [wframe EXCEPT ![w] = NoFrame]
    /\ Goto(w, IF fps < 0 THEN "dead" ELSE "loop")
    /\ UNCHANGED <<handle, flags, session, on_complete, afterQueue, mainv,
                   raced, stale>>

\* self.canvas.after(0, lambda f=frame: self._display_frame(f)), then
\* time.sleep(frame_delay), which raises ValueError for a negative delay
WPost(w) ==
    /\ wpc[w] = "post"
    /\ Post([kind |-> "frame", frame |-> wframe[w]])
    /\ wframe' = [wframe EXCEPT ![w] = NoFrame]
    /\ Goto(w, IF fps < 0 THEN "dead" ELSE "loop")
    /\ UNCHANGED <<handle, flags, session, on_complete, photo, mainv,
                   raced, stale>>

\* after the loop: self.is_playing = False
WExit(w) ==
    /\ wpc[w] = "exit"
    /\ is_playing' = FALSE
    /\ Goto(w, "done")
    /\ UNCHANGED <<handle, is_paused, stop_flag, session, on_complete, ui,
                   mainv, wframe, raced, stale>>

\* ------------------------------------------------------ specification
\* The user makes at most MaxCalls calls.
Budget == calls < MaxCalls /\ calls' = calls + 1
Same == UNCHANGED calls

Next ==
    \/ Budget /\ CallStop
    \/ \E p \in Paths : Budget /\ CallLoad(p)
    \/ \E k \in Positions : Budget /\ CallSeek(k)
    \/ Budget /\ CallPlay
    \/ Budget /\ CallPause
    \/ Budget /\ CallResume
    \/ Same /\ StopPlaying
    \/ Same /\ StopPaused
    \/ Same /\ StopRelease
    \/ Same /\ StopNone
    \/ Same /\ LoadOpen
    \/ Same /\ LoadIsOpened
    \/ Same /\ LoadTotal
    \/ Same /\ LoadFps
    \/ Same /\ LoadCur
    \/ Same /\ LoadShowSet
    \/ Same /\ LoadShowRead
    \/ Same /\ SeekSet
    \/ Same /\ SeekCur
    \/ Same /\ SeekShow
    \/ Same /\ PlayPaused
    \/ Same /\ PlayClear
    \/ Same /\ PlayStart
    \/ Same /\ Drain
    \/ \E w \in Workers : Same /\ WStart(w)
    \/ \E w \in Workers : Same /\ WLoop(w)
    \/ \E w \in Workers : Same /\ WChkPause(w)
    \/ \E w \in Workers : Same /\ WChkCap(w)
    \/ \E w \in Workers : Same /\ WReadCall(w)
    \/ \E w \in Workers : Same /\ WReadRet(w)
    \/ \E w \in Workers : Same /\ WEosSet(w)
    \/ \E w \in Workers : Same /\ WEosReset(w)
    \/ \E w \in Workers : Same /\ WEosNotify(w)
    \/ \E w \in Workers : Same /\ WUpd(w)
    \/ \E w \in Workers : Same /\ WPost(w)
    \/ \E w \in Workers : Same /\ WExit(w)

Spec == Init /\ [][Next]_vars

\* The statements of a call in progress on the main thread.
MainStep ==
    \/ StopPlaying \/ StopPaused \/ StopRelease \/ StopNone
    \/ LoadOpen \/ LoadIsOpened \/ LoadTotal \/ LoadFps \/ LoadCur
    \/ LoadShowSet \/ LoadShowRead
    \/ SeekSet \/ SeekCur \/ SeekShow
    \/ PlayPaused \/ PlayClear \/ PlayStart

WorkerStep(w) ==
    \/ WStart(w) \/ WLoop(w) \/ WChkPause(w) \/ WChkCap(w)
    \/ WReadCall(w) \/ WReadRet(w)
    \/ WEosSet(w) \/ WEosReset(w) \/ WEosNotify(w)
    \/ WUpd(w) \/ WPost(w) \/ WExit(w)

\* A call, once made, runs to its end; the Tk main loop keeps dispatching;
\* the operating system keeps scheduling every live thread.
FairSpec ==
    /\ Spec
    /\ WF_vars(Same /\ MainStep)
    /\ WF_vars(Same /\ Drain)
    /\ \A w \in Workers : WF_vars(Same /\ WorkerStep(w))

\* ------------------------------------------------------------- claims
\* This step is the public call `op` being made.
IsCall(op) == calls' = calls + 1 /\ last' = op

\* The worker is inside the while loop of _play_loop.
InLoop(w) == wpc[w] \in {"loop", "chk_pause", "chk_cap", "read", "reading",
                         "eos_set", "eos_reset", "eos_notify", "upd", "post"}
RunningLoops == {w \in Workers : InLoop(w)}

\* C1: at most one decode loop is active at any time.
C1_AtMostOneLoop == Cardinality(RunningLoops) <= 1

\* The next statement of the main thread calls into, releases or replaces
\* the decoder handle.
MainAtHandle ==
    \/ mpc \in {"stop_none", "load_open", "load_isopened", "load_total",
                "load_fps", "load_show_set", "load_show_read", "seek_set"}
    \/ mpc = "stop_release" /\ cap # "none"
    \/ mpc = "seek_show" /\ ~is_playing

\* C2: the main thread is at the decoder handle only while no decode loop
\* runs, and no read of a worker overlaps another call on its handle.
C2_HandleExclusive ==
    /\ MainAtHandle => RunningLoops = {}
    /\ raced = {}

\* C3: play() directly after a load() that returned false changes nothing:
\* playing stays false and the call returns without starting a thread.
C3_PlayAfterFailedLoadNoOp ==
    [][(last = "load_fail" /\ IsCall("play"))
        => (~is_playing' /\ mpc' = "idle" /\ wpc' = wpc)]_vars

\* C4: after a load() that returned false, get_progress() returns 0.0.
C4_ProgressZeroAfterFailedLoad ==
    (last = "load_fail" /\ mpc = "idle") => ProgressIsZero

\* C5: a decode loop that is running when stop() sets the stop signal
\* eventually terminates, whatever the main thread calls afterwards.
C5_StoppedLoopTerminates ==
    \A w \in Workers :
        (mpc = "stop_playing" /\ InLoop(w)) ~> ~LoopActive(w)

\* C6: between the return of pause() and the next call, no step changes
\* current_frame or reads a frame from the decoder.
C6_NoAdvanceWhilePaused ==
    [][(last = "pause" /\ last' = "pause")
        => (current_frame' = current_frame /\ capPos' = capPos)]_vars

\* C7: seek(k / PosDen) on a loaded source with total_frames > 0, made
\* while not playing, returns with current_frame equal to
\* floor(position * total_frames) clamped to total_frames - 1.
C7_SeekClamped ==
    [][(mpc = "seek_show" /\ mpc' = "idle" /\ ~is_playing /\ ActiveLoops = {})
        => current_frame' = Min(SeekFrame(seekPos, total_frames), total_frames - 1)]_vars

\* C8: when load() returns true, current_frame is 0, playing is false and
\* get_progress() returns 0.0.
C8_LoadResets ==
    [][(mpc = "load_show_read" /\ mpc' = "idle")
        => (current_frame' = 0 /\ ~is_playing' /\ ProgressIsZero')]_vars

Completion == [kind |-> "complete", frame |-> NoFrame]

\* Worker w takes a step from statement l.
StepFrom(w, l) == wpc[w] = l /\ wpc'[w] # l

C10_PlayContract ==
    [][/\ IsCall("play")
          => IF is_playing \/ cap # "open"
             THEN flags' = flags /\ wpc' = wpc /\ mpc' = "idle"
             ELSE is_playing' /\ mpc' = "play_paused"
       /\ (mpc = "play_paused" /\ mpc' # mpc) => ~is_paused'
       /\ (mpc = "play_clear" /\ mpc' # mpc) => ~stop_flag'
       /\ (mpc = "play_start" /\ mpc' # mpc)
          => Cardinality(ActiveLoops') = Cardinality(ActiveLoops) + 1]_vars

\* C11: a stop() made directly after another stop() changes no session
\* state in any of its statements (playing and paused stay false, the handle
\* stays released, the stop signal stays set, current_frame, total_frames
\* and fps are untouched) and runs to its end without raising.
C11_StopIdempotent ==
    [][(last' = "stop_again" /\ mpc' # mpc)
        => /\ flags' = flags /\ handle' = handle /\ session' = session
           /\ ~is_playing /\ ~is_paused /\ stop_flag /\ cap = "none"
           /\ mpc' \in {"stop_playing", "stop_paused", "stop_release", "idle"}]_vars

\* A second stop() has returned after a session that had been loaded and
\* played.
C11_Witness ==
    /\ last = "stop_again" /\ mpc = "idle"
    /\ total_frames > 0
    /\ \E w \in Workers : wpc[w] # "unborn"

\* C12: in every reachable state 0 <= current_frame <= total_frames, and
\* get_progress() therefore lies in [0, 1] (0.0 when total_frames is 0).
C12_FrameIndexInRange ==
    /\ 0 <= current_frame /\ current_frame <= total_frames
    /\ 0 <= get_progress[1] /\ get_progress[1] <= get_progress[2]
    /\ (total_frames = 0 => ProgressIsZero)

\* C13: no step of a _play_loop thread changes the canvas image or _photo;
\* the step that hands a decoded frame on only appends it to the callback
\* queue; every step that replaces the image is a step of the main thread
\* (_show_frame inside load() or seek(), or _display_frame run by the Tk
\* main loop from the head of the queue).
C13_OnlyMainThreadRenders ==
    [][/\ (wpc' # wpc => photo' = photo)
       /\ \A w \in Workers :
            (wpc[w] = "post" /\ wpc'[w] # "post")
                => afterQueue' = Append(afterQueue,
                                        [kind |-> "frame", frame |-> wframe[w]])
       /\ (photo' # photo)
            => \/ mpc \in {"load_show_read", "seek_show"} /\ mpc' = "idle"
               \/ /\ mpc = "idle" /\ mpc' = "idle" /\ afterQueue # <<>>
                  /\ afterQueue' = Tail(afterQueue)
                  /\ photo' = Head(afterQueue).frame]_vars

\* A frame decoded by a loop waits in the callback queue, not yet drawn.
C13_Witness ==
    /\ afterQueue # <<>>
    /\ Head(afterQueue).kind = "frame"
    /\ Head(afterQueue).frame \notin {NoFrame, photo}
    /\ \E w \in Workers : InLoop(w)

\* C14: after every successful load() fps is strictly positive: the rate the
\* source reports when that is positive, 30 when the source reports zero, a
\* negative rate or none.
C14_FpsPositiveAfterLoad ==
    (last = "load_ok")
        => /\ fps > 0
           /\ fps = IF ReportedFps(capSrc) > 0 THEN ReportedFps(capSrc) ELSE 30

\* C15: while the decode loop started by the most recent play() is inside
\* its while loop and stop() has not been called since that play(),
\* is_playing is true.
C15_PlayingTracksLoop ==
    (newest # 0 /\ InLoop(newest)) => is_playing

\* C16: from the return of a successful load() (which begins with stop())
\* until the next call, the canvas shows frame 0 of the new source: no frame
\* the stopped session decoded or queued is drawn over it.
C16_NoStaleFrameAfterLoad ==
    (last = "load_ok") => photo = [src |-> capSrc, idx |-> 0]

====
